---------------------------- MODULE Spec2Model ----------------------------
(***************************************************************************)
(* Model of the thumbnail service: the CloudEvent handler of src/main.py   *)
(* (handle_event with its in-memory idempotency store) and the batch       *)
(* worker of src/process.py (process with its static shard assignment).    *)
(*                                                                         *)
(* Strings that the code takes apart (object names, idempotency keys) are  *)
(* sequences of one-character strings, so that concatenation, split("/")   *)
(* and splitext are computed rather than assumed.                          *)
(***************************************************************************)
EXTENDS Integers, Sequences, FiniteSets, TLC

(***************************************************************************)
(* Bounds of the model.                                                    *)
(***************************************************************************)
NumHandlers == 2
MaxDeliveries == 3
MaxClock == 1
TicksPerHour == 1
MaxTaskCount == 5
MaxTotal == 12

Handlers == 1..NumHandlers

(***************************************************************************)
(* Python values that occur in a notification payload.                     *)
(***************************************************************************)
None == [t |-> "none"]
Str(s) == [t |-> "str", v |-> s]
PyInt(n) == [t |-> "int", v |-> n]

\* Python truthiness, as used by `not bucket_name or not object_name`.
Truthy(val) ==
    CASE val.t = "none" -> FALSE
      [] val.t = "str" -> val.v # <<>>
      [] val.t = "int" -> val.v # 0

DigitChars == <<"0", "1", "2", "3", "4", "5", "6", "7", "8", "9">>

RECURSIVE Digits(_)
Digits(n) ==
    IF n < 10 THEN <<DigitChars[n + 1]>>
    ELSE Digits(n \div 10) \o <<DigitChars[(n % 10) + 1]>>

\* str(generation): a string is itself, an integer its decimal digits.
PyStr(val) ==
    CASE val.t = "str" -> val.v
      [] val.t = "int" -> Digits(val.v)
      [] val.t = "none" -> <<"N", "o", "n", "e">>

(***************************************************************************)
(* Notification payloads.  parse = FALSE is an envelope from_http rejects; *)
(* shape tells whether event.data is a mapping or an object with           *)
(* attributes; data gives the fields that are present (possibly null).     *)
(***************************************************************************)
BucketB == <<"b">>
ObjAX == <<"a", "/", "x", ".", "j", "p", "g">>

Payload(shape, data) == [parse |-> TRUE, shape |-> shape, data |-> data]

Unparseable == [parse |-> FALSE, shape |-> "dict", data |-> <<>>]

Deliveries ==
    { Payload("dict", ("bucket" :> Str(BucketB)) @@ ("name" :> Str(ObjAX))
                      @@ ("generation" :> PyInt(1))),
      Payload("attr", ("bucket" :> Str(BucketB)) @@ ("file_name" :> Str(ObjAX))
                      @@ ("name" :> None) @@ ("generation" :> Str(<<"1">>))),
      Payload("dict", ("bucket" :> Str(BucketB)) @@ ("name" :> Str(ObjAX))
                      @@ ("generation" :> PyInt(2))),
      Payload("dict", ("bucket" :> Str(BucketB)) @@ ("name" :> Str(ObjAX))),
      Unparseable }

\* _extract_field: the keys are tried in order.  A mapping answers with the
\* value stored under the first key it contains; an object answers with the
\* first attribute that is not None.
RECURSIVE ExtractField(_, _)
ExtractField(p, keys) ==
    IF keys = <<>> THEN None
    ELSE LET k == Head(keys) IN
         IF p.shape = "dict" /\ k \in DOMAIN p.data THEN p.data[k]
         ELSE IF p.shape = "attr" /\ k \in DOMAIN p.data /\ p.data[k] # None
              THEN p.data[k]
         ELSE ExtractField(p, Tail(keys))

BucketName(p) == ExtractField(p, <<"bucket">>)
ObjectName(p) == ExtractField(p, <<"file_name", "name">>)
Generation(p) == ExtractField(p, <<"generation">>)

\* Variant: the check `generation is None` is left out.
ValidEvent_NoGenerationCheck(p) ==
    /\ p.parse
    /\ Truthy(BucketName(p))
    /\ Truthy(ObjectName(p))

\* The guard of the 400 answers of handle_event (lines 191-210).
ValidEvent(p) ==
    /\ p.parse
    /\ Truthy(BucketName(p))
    /\ Truthy(ObjectName(p))
    /\ Generation(p) # None

\* f"{bucket_name}/{object_name}@{generation_str}"
IdempotencyKey(p) ==
    PyStr(BucketName(p)) \o <<"/">> \o PyStr(ObjectName(p)) \o <<"@">>
        \o PyStr(Generation(p))

KeysOf(payloads) == {IdempotencyKey(p) : p \in {d \in payloads : ValidEvent(d)}}

AllKeys == KeysOf(Deliveries)

\* Notifications that differ in one part of bucket, object name and
\* generation, among them some whose parts contain the separators of the key,
\* and one whose first object-name field is null.
ObjX == <<"x", ".", "j", "p", "g">>
KeyDeliveries ==
    { Payload("dict", ("bucket" :> Str(BucketB)) @@ ("name" :> Str(ObjAX))
                      @@ ("generation" :> PyInt(1))),
      Payload("dict", ("bucket" :> Str(BucketB)) @@ ("name" :> Str(ObjAX))
                      @@ ("generation" :> Str(<<"1">>))),
      Payload("dict", ("bucket" :> Str(BucketB)) @@ ("name" :> Str(ObjAX))
                      @@ ("generation" :> PyInt(2))),
      Payload("dict", ("bucket" :> Str(BucketB \o <<"/", "a">>)) @@ ("name" :> Str(ObjX))
                      @@ ("generation" :> PyInt(1))),
      Payload("dict", ("bucket" :> Str(BucketB)) @@ ("name" :> Str(ObjAX \o <<"@", "1">>))
                      @@ ("generation" :> PyInt(2))),
      Payload("dict", ("bucket" :> Str(BucketB)) @@ ("name" :> Str(ObjAX))
                      @@ ("generation" :> Str(<<"1", "@", "2">>))),
      Payload("dict", ("bucket" :> Str(BucketB)) @@ ("file_name" :> None)
                      @@ ("name" :> Str(ObjAX)) @@ ("generation" :> PyInt(1))) }

(***************************************************************************)
(* String helpers of the handler.                                          *)
(***************************************************************************)
\* str.rfind, 1-based; 0 when the character does not occur.
LastIndexOf(s, c) ==
    IF \E i \in 1..Len(s) : s[i] = c
    THEN CHOOSE i \in 1..Len(s) : s[i] = c /\ \A j \in (i + 1)..Len(s) : s[j] # c
    ELSE 0

\* object_name.split("/")[-1] and os.path.basename
Basename(s) == SubSeq(s, LastIndexOf(s, "/") + 1, Len(s))

\* os.path.splitext(filename)[1]: from the last dot of the last path
\* component, unless that component has only leading dots before it.
SplitExt(s) ==
    LET sep == LastIndexOf(s, "/")
        dot == LastIndexOf(s, ".")
    IN IF dot > sep /\ \E i \in (sep + 1)..(dot - 1) : s[i] # "."
       THEN SubSeq(s, dot, Len(s))
       ELSE <<>>

UpperChars == <<"A", "B", "C", "D", "E", "F", "G", "H", "I", "J", "K", "L", "M",
                "N", "O", "P", "Q", "R", "S", "T", "U", "V", "W", "X", "Y", "Z">>
LowerChars == <<"a", "b", "c", "d", "e", "f", "g", "h", "i", "j", "k", "l", "m",
                "n", "o", "p", "q", "r", "s", "t", "u", "v", "w", "x", "y", "z">>

LowerChar(c) ==
    IF \E i \in 1..Len(UpperChars) : UpperChars[i] = c
    THEN LowerChars[CHOOSE i \in 1..Len(UpperChars) : UpperChars[i] = c]
    ELSE c

Lower(s) == [i \in 1..Len(s) |-> LowerChar(s[i])]

\* Variant: the extension is looked up as it is written.
infer_format_from_ext_CaseSensitive(filename) ==
    LET ext == SplitExt(filename) IN
    CASE ext = <<".", "j", "p", "g">> -> "JPEG"
      [] ext = <<".", "j", "p", "e", "g">> -> "JPEG"
      [] ext = <<".", "p", "n", "g">> -> "PNG"
      [] ext = <<".", "g", "i", "f">> -> "GIF"
      [] ext = <<".", "b", "m", "p">> -> "BMP"
      [] ext = <<".", "t", "i", "f", "f">> -> "TIFF"
      [] ext = <<".", "t", "i", "f">> -> "TIFF"
      [] ext = <<".", "w", "e", "b", "p">> -> "WEBP"
      [] OTHER -> "PNG"

infer_format_from_ext(filename) ==
    LET ext == Lower(SplitExt(filename)) IN
    CASE ext = <<".", "j", "p", "g">> -> "JPEG"
      [] ext = <<".", "j", "p", "e", "g">> -> "JPEG"
      [] ext = <<".", "p", "n", "g">> -> "PNG"
      [] ext = <<".", "g", "i", "f">> -> "GIF"
      [] ext = <<".", "b", "m", "p">> -> "BMP"
      [] ext = <<".", "t", "i", "f", "f">> -> "TIFF"
      [] ext = <<".", "t", "i", "f">> -> "TIFF"
      [] ext = <<".", "w", "e", "b", "p">> -> "WEBP"
      [] OTHER -> "PNG"

(***************************************************************************)
(* The image pipeline.  What Pillow does with downloaded bytes depends on  *)
(* the bytes alone:                                                        *)
(*   good        decodes and encodes in every format                       *)
(*   png_only    decodes, but the save in a format other than PNG fails    *)
(*   broken      Image.open succeeds, the thumbnail cannot be produced      *)
(*   undecodable Image.open fails                                          *)
(***************************************************************************)
ImageKinds == {"good", "png_only", "broken", "undecodable"}

\* Image.open(io.BytesIO(image_bytes)) succeeds
Decodable(kind) == kind # "undecodable"

\* create_thumbnail_bytes(image_bytes, out_format) returns normally
create_thumbnail_bytes(kind, fmt) ==
    \/ kind = "good"
    \/ kind = "png_only" /\ fmt = "PNG"

\* The calls of the thumbnail stage, with whether each returned normally.
Create(kind, fmt) ==
    [call |-> "create_thumbnail_bytes", fmt |-> fmt,
     ok |-> create_thumbnail_bytes(kind, fmt)]
Open(kind) == [call |-> "Image.open", fmt |-> "none", ok |-> Decodable(kind)]

\* Variant: the retry as PNG is made without looking at the source first.
ThumbnailStage_RetryUnchecked(kind, object_name) ==
    LET out_format == infer_format_from_ext(object_name) IN
    IF create_thumbnail_bytes(kind, out_format)
    THEN [outcome |-> "ok", fmt |-> out_format,
          tried |-> <<Create(kind, out_format)>>]
    ELSE IF create_thumbnail_bytes(kind, "PNG")
    THEN [outcome |-> "ok", fmt |-> "PNG",
          tried |-> <<Create(kind, out_format), Create(kind, "PNG")>>]
    ELSE [outcome |-> "thumbnail_error", fmt |-> "PNG",
          tried |-> <<Create(kind, out_format), Create(kind, "PNG")>>]

\* Lines 272-302 of handle_event: the attempt in the inferred format, the
\* check that the source is an image, the retry as PNG.
ThumbnailStage(kind, object_name) ==
    LET out_format == infer_format_from_ext(object_name) IN
    IF create_thumbnail_bytes(kind, out_format)
    THEN [outcome |-> "ok", fmt |-> out_format,
          tried |-> <<Create(kind, out_format)>>]
    ELSE IF ~Decodable(kind)
    THEN [outcome |-> "invalid_image", fmt |-> out_format,
          tried |-> <<Create(kind, out_format), Open(kind)>>]
    ELSE IF create_thumbnail_bytes(kind, "PNG")
    THEN [outcome |-> "ok", fmt |-> "PNG",
          tried |-> <<Create(kind, out_format), Open(kind), Create(kind, "PNG")>>]
    ELSE [outcome |-> "thumbnail_error", fmt |-> "PNG",
          tried |-> <<Create(kind, out_format), Open(kind), Create(kind, "PNG")>>]

(***************************************************************************)
(* Time and destinations.                                                  *)
(***************************************************************************)
\* _utc_timestamp_folder: strftime("%Y%m%dT%HZ") keeps the hour and drops
\* everything below it.
utc_timestamp_folder(now) == now \div TicksPerHour

\* Variant: the layout of the batch worker, without the folder "resized".
DestBlobName_Flat(timestamp, object_name) ==
    <<timestamp, Basename(object_name)>>

\* f"{timestamp}/resized/{dest_basename}"
DestBlobName(timestamp, object_name) ==
    <<timestamp, "resized", Basename(object_name)>>

\* f"gs://{bucket_name}/{dest_blob_name}"
UploadedPath(bucket_name, dest_blob_name) == <<"gs://", bucket_name>> \o dest_blob_name

(***************************************************************************)
(* State of the event service.                                             *)
(***************************************************************************)
VARIABLES
    pc,         \* handler -> where it is in handle_event
    req,        \* handler -> the payload of the call it is serving
    claimed,    \* handler -> whether this call inserted the 'processing' record
    thumb,      \* handler -> output format of the thumbnail it made ("none" before)
    tried,      \* handler -> the calls its thumbnail stage has made, in order
    pending,    \* handler -> the terminal record and response it is about to store
    wrote,      \* handler -> number of blobs this call has written
    ops,        \* handler -> number of blob-store calls this call has made
    last,       \* the call that returned in this step, if one did: payload,
                \* response, what it did
    lock,       \* holder of _idempotency_lock, 0 when free
    ledger,     \* _idempotency_store: key -> record, a partial function
    downloads,  \* key -> number of download_as_bytes calls made for it
    uploads,    \* key -> number of upload_bytes_to_gs calls made for it
    claims,     \* key -> number of times a 'processing' record was inserted for it
    inbox,      \* the notifications that may be delivered, by number
    delivered   \* number of notifications delivered so far

(***************************************************************************)
(* State shared by the event service and the batch worker: the blob store  *)
(* they upload to, and the clock.                                          *)
(***************************************************************************)
VARIABLES
    blobs,      \* the thumbnails in the blob store: <<bucket, name>> -> data
    clock       \* the wall clock, in ticks

locals == <<req, claimed, thumb, tried, pending, wrote, ops>>
counters == <<downloads, uploads, claims>>

eventVars == <<pc, locals, last, lock, ledger, counters, inbox, delivered>>

\* The notifications in some fixed order, so that a number stands for each.
RECURSIVE SetToSeq(_)
SetToSeq(S) ==
    IF S = {} THEN <<>>
    ELSE LET x == CHOOSE y \in S : TRUE IN <<x>> \o SetToSeq(S \ {x})
Notifications == SetToSeq(Deliveries \cup KeyDeliveries)
Numbers(payloads) == {i \in DOMAIN Notifications : Notifications[i] \in payloads}
Inbox == {Notifications[i] : i \in inbox}

NoRequest == [parse |-> FALSE, shape |-> "none", data |-> <<>>]
NoResponse == [code |-> 0]
NoPending == [rec |-> [status |-> "none"], resp |-> NoResponse]
NoCall == [req |-> NoRequest, resp |-> NoResponse, claimed |-> FALSE,
           ops |-> 0, wrote |-> 0, tried |-> <<>>]

Key(h) == IdempotencyKey(req[h])
Bucket(h) == PyStr(BucketName(req[h]))
Object(h) == PyStr(ObjectName(req[h]))

EventInit ==
    /\ pc = [h \in Handlers |-> "idle"]
    /\ req = [h \in Handlers |-> NoRequest]
    /\ claimed = [h \in Handlers |-> FALSE]
    /\ thumb = [h \in Handlers |-> "none"]
    /\ tried = [h \in Handlers |-> <<>>]
    /\ pending = [h \in Handlers |-> NoPending]
    /\ wrote = [h \in Handlers |-> 0]
    /\ ops = [h \in Handlers |-> 0]
    /\ last = NoCall
    /\ lock = 0
    /\ ledger = <<>>
    /\ downloads = [k \in KeysOf(Inbox) |-> 0]
    /\ uploads = [k \in KeysOf(Inbox) |-> 0]
    /\ claims = [k \in KeysOf(Inbox) |-> 0]
    /\ delivered = 0

(***************************************************************************)
(* handle_event, one action per step between two points where another      *)
(* handler can run and see or change shared state.                         *)
(***************************************************************************)
\* The call of handler h returns `response`: the step shows the call in
\* `last`, and the locals of the call are gone.
Return(h, p, response) ==
    /\ last' = [req |-> p, resp |-> response, claimed |-> claimed[h],
                ops |-> ops[h], wrote |-> wrote[h], tried |-> tried[h]]
    /\ pc' = [pc EXCEPT ![h] = "idle"]
    /\ req' = [req EXCEPT ![h] = NoRequest]
    /\ claimed' = [claimed EXCEPT ![h] = FALSE]
    /\ thumb' = [thumb EXCEPT ![h] = "none"]
    /\ tried' = [tried EXCEPT ![h] = <<>>]
    /\ pending' = [pending EXCEPT ![h] = NoPending]
    /\ wrote' = [wrote EXCEPT ![h] = 0]
    /\ ops' = [ops EXCEPT ![h] = 0]

\* Lines 191-213: parse the envelope, extract the three fields, answer 400
\* or go on to the idempotency check.
Receive(h) ==
    /\ pc[h] = "idle"
    /\ delivered < MaxDeliveries
    /\ delivered' = delivered + 1
    /\ \E p \in Inbox :
        IF ~p.parse
        THEN Return(h, p, [code |-> 400, error |-> "invalid cloudevent"])
        ELSE IF ~ValidEvent(p)
        THEN Return(h, p, [code |-> 400,
                           error |-> "missing required CloudEvent fields"])
        ELSE /\ req' = [req EXCEPT ![h] = p]
             /\ pc' = [pc EXCEPT ![h] = "claim"]
             /\ last' = NoCall
             /\ UNCHANGED <<claimed, thumb, tried, pending, wrote, ops>>
    /\ UNCHANGED <<lock, ledger, blobs, counters, clock>>

\* Line 216: with _idempotency_lock (entry).
AcquireForClaim(h) ==
    /\ pc[h] = "claim"
    /\ lock = 0
    /\ lock' = h
    /\ pc' = [pc EXCEPT ![h] = "claim_cs"]
    /\ last' = NoCall
    /\ UNCHANGED <<locals, ledger, blobs, counters, clock, delivered>>

\* The answer for a key that already has a record (lines 218-253).
ExistingResponse(key, existing) ==
    CASE existing.status = "completed" ->
            [code |-> 200, status |-> "already_processed", idempotency_key |-> key,
             uploaded_to |-> existing.dest_blob, uploaded_at |-> existing.uploaded_at]
      [] existing.status = "processing" ->
            [code |-> 409, status |-> "processing", idempotency_key |-> key]
      [] existing.status = "failed" ->
            [code |-> 500, status |-> "failed", idempotency_key |-> key,
             error |-> existing.error]

\* Variants: one of the three status branches is missing, so that a record
\* with that status falls through to the insertion of line 256.
AnsweredFromRecord_NoProcessing(key) ==
    /\ key \in DOMAIN ledger
    /\ ledger[key].status \in {"completed", "failed"}

AnsweredFromRecord_NoCompleted(key) ==
    /\ key \in DOMAIN ledger
    /\ ledger[key].status \in {"processing", "failed"}

AnsweredFromRecord_NoFailed(key) ==
    /\ key \in DOMAIN ledger
    /\ ledger[key].status \in {"completed", "processing"}

\* `existing = _idempotency_store.get(key)` is a record whose status is one
\* of the three that handle_event answers from (lines 217-253); with any
\* other outcome the code falls through to line 256.
AnsweredFromRecord(key) ==
    /\ key \in DOMAIN ledger
    /\ ledger[key].status \in {"completed", "processing", "failed"}

\* _idempotency_store[key] = record
Store(key, record) ==
    [k \in DOMAIN ledger \cup {key} |-> IF k = key THEN record ELSE ledger[k]]

\* Variant: the work on the object is done inside the `with` block of the
\* claim, so the lock is kept after the insertion.
ClaimOrInspect_KeepLock(h) ==
    /\ pc[h] = "claim_cs"
    /\ lock = h
    /\ lock' = IF AnsweredFromRecord(Key(h)) THEN 0 ELSE h
    /\ IF AnsweredFromRecord(Key(h))
       THEN /\ Return(h, req[h], ExistingResponse(Key(h), ledger[Key(h)]))
            /\ UNCHANGED <<ledger, claims>>
       ELSE /\ ledger' = Store(Key(h), [status |-> "processing"])
            /\ claimed' = [claimed EXCEPT ![h] = TRUE]
            /\ claims' = [claims EXCEPT ![Key(h)] = @ + 1]
            /\ pc' = [pc EXCEPT ![h] = "download"]
            /\ last' = NoCall
            /\ UNCHANGED <<req, thumb, tried, pending, wrote, ops>>
    /\ UNCHANGED <<blobs, downloads, uploads, clock, delivered>>

\* Lines 217-256, inside the lock: answer from an existing record, or insert
\* the 'processing' record; the lock is released on the way out.
ClaimOrInspect(h) ==
    /\ pc[h] = "claim_cs"
    /\ lock = h
    /\ lock' = 0
    /\ IF AnsweredFromRecord(Key(h))
       THEN /\ Return(h, req[h], ExistingResponse(Key(h), ledger[Key(h)]))
            /\ UNCHANGED <<ledger, claims>>
       ELSE /\ ledger' = Store(Key(h), [status |-> "processing"])
            /\ claimed' = [claimed EXCEPT ![h] = TRUE]
            /\ claims' = [claims EXCEPT ![Key(h)] = @ + 1]
            /\ pc' = [pc EXCEPT ![h] = "download"]
            /\ last' = NoCall
            /\ UNCHANGED <<req, thumb, tried, pending, wrote, ops>>
    /\ UNCHANGED <<blobs, downloads, uploads, clock, delivered>>

\* Variant: a failure is recorded by its status alone.
FailedRecord_NoError(tag) == [status |-> "failed"]

\* The record written on each failure path (lines 266-269, 283-286, 296-299,
\* 318-321).
FailedRecord(tag) == [status |-> "failed", error |-> tag]

\* Lines 272-302 for handler h and downloaded bytes of kind `kind`: the
\* thumbnail is ready for the upload, or the failure is ready to be recorded.
Thumbnail(h, kind) ==
    LET r == ThumbnailStage(kind, Object(h)) IN
    /\ tried' = [tried EXCEPT ![h] = r.tried]
    /\ CASE r.outcome = "ok" ->
              /\ thumb' = [thumb EXCEPT ![h] = r.fmt]
              /\ pc' = [pc EXCEPT ![h] = "upload"]
              /\ pending' = pending
         [] r.outcome = "invalid_image" ->
              /\ pending' = [pending EXCEPT ![h] =
                      [rec |-> FailedRecord("invalid_image"),
                       resp |-> [code |-> 400,
                                 error |-> "source is not a valid image"]]]
              /\ pc' = [pc EXCEPT ![h] = "record"]
              /\ thumb' = thumb
         [] r.outcome = "thumbnail_error" ->
              /\ pending' = [pending EXCEPT ![h] =
                      [rec |-> FailedRecord("thumbnail_error"),
                       resp |-> [code |-> 500,
                                 error |-> "failed to create thumbnail"]]]
              /\ pc' = [pc EXCEPT ![h] = "record"]
              /\ thumb' = thumb

\* Variant: a failed download answers 500 without recording the failure.
Download_NoRecord(h) ==
    /\ pc[h] = "download"
    /\ downloads' = [downloads EXCEPT ![Key(h)] = @ + 1]
    /\ \/ \E kind \in ImageKinds :
            /\ Thumbnail(h, kind)
            /\ ops' = [ops EXCEPT ![h] = @ + 1]
            /\ last' = NoCall
            /\ UNCHANGED <<req, claimed, wrote>>
       \/ Return(h, req[h], [code |-> 500, error |-> "failed to download object"])
    /\ UNCHANGED <<lock, ledger, blobs, uploads, claims, clock, delivered>>

\* Lines 258-302: download the object and make the thumbnail from its bytes,
\* which touches nothing another handler can see; a failed download is
\* recorded as download_error.
Download(h) ==
    /\ pc[h] = "download"
    /\ downloads' = [downloads EXCEPT ![Key(h)] = @ + 1]
    /\ ops' = [ops EXCEPT ![h] = @ + 1]
    /\ \/ \E kind \in ImageKinds : Thumbnail(h, kind)
       \/ /\ pending' = [pending EXCEPT ![h] =
                  [rec |-> FailedRecord("download_error"),
                   resp |-> [code |-> 500, error |-> "failed to download object"]]]
          /\ pc' = [pc EXCEPT ![h] = "record"]
          /\ UNCHANGED <<thumb, tried>>
    /\ last' = NoCall
    /\ UNCHANGED <<req, claimed, wrote, lock, ledger, blobs, uploads,
                   claims, clock, delivered>>

\* blob.upload_from_string(data): the blob at <<bucket, name>> is created or
\* overwritten.
upload_bytes_to_gs(bucket_name, dest_blob_name, data) ==
    LET at == <<bucket_name, dest_blob_name>> IN
    [b \in DOMAIN blobs \cup {at} |-> IF b = at THEN data ELSE blobs[b]]

\* Lines 304-324: the destination is computed from the clock as it is now,
\* then the thumbnail is uploaded; a failure is recorded as upload_error.
Upload(h) ==
    /\ pc[h] = "upload"
    /\ uploads' = [uploads EXCEPT ![Key(h)] = @ + 1]
    /\ ops' = [ops EXCEPT ![h] = @ + 1]
    /\ LET dest_blob_name == DestBlobName(utc_timestamp_folder(clock), Object(h)) IN
       \/ /\ blobs' = upload_bytes_to_gs(Bucket(h), dest_blob_name,
                                         [of |-> Key(h), fmt |-> thumb[h]])
          /\ wrote' = [wrote EXCEPT ![h] = @ + 1]
          /\ pending' = [pending EXCEPT ![h] =
                  [rec |-> [status |-> "completed",
                            dest_blob |-> UploadedPath(Bucket(h), dest_blob_name)],
                   resp |-> [code |-> 200, status |-> "ok",
                             idempotency_key |-> Key(h),
                             uploaded_to |-> UploadedPath(Bucket(h), dest_blob_name)]]]
          /\ pc' = [pc EXCEPT ![h] = "stamp"]
       \/ /\ pending' = [pending EXCEPT ![h] =
                  [rec |-> FailedRecord("upload_error"),
                   resp |-> [code |-> 500, error |-> "failed to upload thumbnail"]]]
          /\ pc' = [pc EXCEPT ![h] = "record"]
          /\ UNCHANGED <<blobs, wrote>>
    /\ last' = NoCall
    /\ UNCHANGED <<req, claimed, thumb, tried, lock, ledger, downloads,
                   claims, clock, delivered>>

\* Variant: the recorded destination is formatted with a timestamp taken
\* again after the upload.
Stamp_FreshTimestamp(h) ==
    /\ pc[h] = "stamp"
    /\ pending' = [pending EXCEPT ![h].rec =
            [status |-> "completed",
             dest_blob |-> UploadedPath(Bucket(h),
                              DestBlobName(utc_timestamp_folder(clock), Object(h))),
             uploaded_at |-> clock]]
    /\ pc' = [pc EXCEPT ![h] = "record"]
    /\ last' = NoCall
    /\ UNCHANGED <<req, claimed, thumb, tried, wrote, ops, lock, ledger,
                   blobs,
                   counters, clock, delivered>>

\* Lines 326-327: uploaded_at is the time after the upload has returned.
Stamp(h) ==
    /\ pc[h] = "stamp"
    /\ pending' = [pending EXCEPT ![h].rec =
            [status |-> "completed", dest_blob |-> @.dest_blob, uploaded_at |-> clock]]
    /\ pc' = [pc EXCEPT ![h] = "record"]
    /\ last' = NoCall
    /\ UNCHANGED <<req, claimed, thumb, tried, wrote, ops, lock, ledger,
                   blobs,
                   counters, clock, delivered>>

\* Lines 265, 282, 295, 317, 329: with _idempotency_lock (entry).
AcquireForRecord(h) ==
    /\ pc[h] = "record"
    /\ lock = 0
    /\ lock' = h
    /\ pc' = [pc EXCEPT ![h] = "record_cs"]
    /\ last' = NoCall
    /\ UNCHANGED <<locals, ledger, blobs, counters, clock, delivered>>

\* The overwrite of the record inside the lock, the release, and the return.
Record(h) ==
    /\ pc[h] = "record_cs"
    /\ lock = h
    /\ ledger' = Store(Key(h), pending[h].rec)
    /\ lock' = 0
    /\ Return(h, req[h], pending[h].resp)
    /\ UNCHANGED <<blobs, counters, clock, delivered>>

(***************************************************************************)
(* The batch worker of src/process.py.                                     *)
(***************************************************************************)
\* Characters in code-point order, for the comparison of names by sort().
CharOrder == <<".", "/">> \o DigitChars \o <<"@">> \o UpperChars \o LowerChars

Ord(c) == CHOOSE i \in 1..Len(CharOrder) : CharOrder[i] = c

\* a < b for Python strings
StrLess(a, b) ==
    \E i \in 1..(Len(a) + 1) :
        /\ \A j \in 1..(i - 1) : j <= Len(b) /\ a[j] = b[j]
        /\ \/ i = Len(a) + 1 /\ Len(b) >= i
           \/ i <= Len(a) /\ i <= Len(b) /\ Ord(a[i]) < Ord(b[i])

\* results.sort() on (name, content_type) pairs: the names of a listing are
\* pairwise different, so the names decide.
RECURSIVE InsertSorted(_, _)
InsertSorted(x, sorted) ==
    IF sorted = <<>> THEN <<x>>
    ELSE IF StrLess(x.name, Head(sorted).name) THEN <<x>> \o sorted
    ELSE <<Head(sorted)>> \o InsertSorted(x, Tail(sorted))

RECURSIVE SortList(_)
SortList(list) ==
    IF list = <<>> THEN <<>>
    ELSE InsertSorted(Head(list), SortList(Tail(list)))

\* Variant: the listing is handed on in the order the store returned it.
list_gs_objects_Unsorted(returned) ==
    LET NotPlaceholder(b) == ~(b.name # <<>> /\ b.name[Len(b.name)] = "/")
    IN SelectSeq(returned, NotPlaceholder)

\* list_gs_objects: the blobs as the store returns them, without directory
\* placeholders, sorted.
list_gs_objects(returned) ==
    LET NotPlaceholder(b) == ~(b.name # <<>> /\ b.name[Len(b.name)] = "/")
    IN SortList(SelectSeq(returned, NotPlaceholder))

ImageExts ==
    { <<".", "j", "p", "g">>, <<".", "j", "p", "e", "g">>, <<".", "p", "n", "g">>,
      <<".", "g", "i", "f">>, <<".", "b", "m", "p">>, <<".", "t", "i", "f", "f">>,
      <<".", "t", "i", "f">>, <<".", "w", "e", "b", "p">> }

\* looks_like_image: by content type when there is one that starts with
\* "image/", by extension otherwise.
looks_like_image(filename, content_type) ==
    \/ Len(content_type) >= 2 /\ SubSeq(content_type, 1, 2) = <<"image", "/">>
    \/ Lower(SplitExt(filename)) \in ImageExts

\* Lines 187-191: the (blob_name, fname) pairs of the objects that look like
\* images, in listing order.
ImagesOf(objects) ==
    LET IsImage(b) == looks_like_image(Basename(b.name), b.content_type)
        picked == SelectSeq(objects, IsImage)
    IN [i \in 1..Len(picked) |->
            [blob_name |-> picked[i].name, filename |-> Basename(picked[i].name)]]

\* Variant: the chunk size is rounded down.
chunk_size_Floor(total, task_count) == total \div task_count

\* math.ceil(total / TASK_COUNT)
chunk_size(total, task_count) == (total + task_count - 1) \div task_count

ChunkStart(total, task_count, task_index) ==
    chunk_size(total, task_count) * task_index

Min(a, b) == IF a <= b THEN a ELSE b

ChunkEnd(total, task_count, task_index) ==
    Min(ChunkStart(total, task_count, task_index) + chunk_size(total, task_count),
        total)

\* images[chunk_start:chunk_end]
Slice(list, from, to) ==
    LET lo == Min(from, Len(list))
        hi == Min(to, Len(list))
    IN IF hi <= lo THEN <<>> ELSE SubSeq(list, lo + 1, hi)

\* The values the environment may give for CLOUD_RUN_TASK_INDEX and
\* CLOUD_RUN_TASK_COUNT: unset, a decimal number, or something else.
TaskEnv ==
    {None, Str(<<"-", "1">>), Str(<<"x">>)} \cup {Str(Digits(n)) : n \in 0..MaxTaskCount}

\* os.environ.get(name, default)
EnvGet(val, default) == IF val = None THEN default ELSE val.v

\* Whether int(s) returns: an optional minus sign and at least one digit.
IsIntLiteral(s) ==
    LET body == IF s # <<>> /\ s[1] = "-" THEN Tail(s) ELSE s
    IN /\ body # <<>>
       /\ \A i \in 1..Len(body) : \E d \in 1..10 : DigitChars[d] = body[i]

RECURSIVE DigitsValue(_)
DigitsValue(s) ==
    IF s = <<>> THEN 0
    ELSE 10 * DigitsValue(SubSeq(s, 1, Len(s) - 1))
         + (CHOOSE d \in 0..9 : DigitChars[d + 1] = s[Len(s)])

\* int(s) for a string on which it returns
int(s) == IF s[1] = "-" THEN 0 - DigitsValue(Tail(s)) ELSE DigitsValue(s)

GsScheme == <<"g", "s", ":", "/", "/">>

\* The values INPUT_FOLDER may have: unset, empty, a local directory, and
\* gs:// paths without and with a bucket.
InputFolders ==
    {None, Str(<<>>), Str(<<"/", "d">>), Str(GsScheme), Str(GsScheme \o BucketB)}

\* isinstance(path, str) and path.startswith("gs://")
is_gs_path(path) ==
    /\ path.t = "str"
    /\ Len(path.v) >= Len(GsScheme)
    /\ SubSeq(path.v, 1, Len(GsScheme)) = GsScheme

\* s.rstrip("/")
RECURSIVE RStripSlash(_)
RStripSlash(s) ==
    IF s # <<>> /\ s[Len(s)] = "/" THEN RStripSlash(SubSeq(s, 1, Len(s) - 1)) ELSE s

\* parse_gs_path for a path that is_gs_path accepts: the bucket is what
\* stands before the first "/" after the scheme, the prefix what follows,
\* without trailing slashes.
parse_gs_path(gs_path) ==
    LET without == SubSeq(gs_path.v, Len(GsScheme) + 1, Len(gs_path.v))
        slashes == {i \in 1..Len(without) : without[i] = "/"}
        first == IF slashes = {} THEN Len(without) + 1
                 ELSE CHOOSE i \in slashes : \A j \in slashes : i <= j
    IN [bucket |-> SubSeq(without, 1, first - 1),
        prefix |-> RStripSlash(SubSeq(without, first + 1, Len(without)))]

\* The objects that may lie under the input prefix.
StoreObjects ==
    { [name |-> <<"a", ".", "j", "p", "g">>, content_type |-> <<"image", "/", "jpeg">>],
      [name |-> <<"d", "/">>, content_type |-> <<>>],
      [name |-> <<"d", "/", "a", ".", "j", "p", "g">>, content_type |-> <<>>],
      [name |-> <<"n", ".", "t", "x", "t">>, content_type |-> <<"text", "/", "plain">>],
      [name |-> <<"z">>, content_type |-> <<"image", "/", "png">>],
      [name |-> <<"B", ".", "P", "N", "G">>, content_type |-> <<>>] }

\* The sequences in which a listing can return a set of objects.
Orders(set) ==
    {o \in [1..Cardinality(set) -> set] : \A i, j \in DOMAIN o : i # j => o[i] # o[j]}

VARIABLES
    bpc,          \* where the worker is in process(); "exited" after a return
                  \* or sys.exit, "crashed" after an uncaught exception in
                  \* process(), "import_error" after one at the import
    INPUT_FOLDER, \* the value of the environment variable, None when unset
    TASK_COUNT,
    TASK_INDEX,
    store,        \* the objects under the input prefix
    images,       \* the list `images`
    chunk_start,
    chunk_end,
    assigned,     \* the list `assigned`
    timestamp,    \* the run's timestamp folder
    pos,          \* number of items of `assigned` the loop has gone through
    attempts,     \* the items attempted so far, in order, each with its outcome
    processed,
    errors,
    exit_code     \* -1 while running

batchVars == <<bpc, INPUT_FOLDER, TASK_COUNT, TASK_INDEX, store, images, chunk_start,
               chunk_end, assigned, timestamp, pos, attempts, processed, errors,
               exit_code>>

vars == <<eventVars, batchVars, blobs, clock>>

\* A worker that has not been started (the event service runs alone).
BatchOff ==
    /\ bpc = "off"
    /\ INPUT_FOLDER = None
    /\ TASK_COUNT = 1
    /\ TASK_INDEX = 0
    /\ store = {}
    /\ images = <<>>
    /\ chunk_start = 0
    /\ chunk_end = 0
    /\ assigned = <<>>
    /\ timestamp = 0
    /\ pos = 0
    /\ attempts = <<>>
    /\ processed = 0
    /\ errors = 0
    /\ exit_code = -1

\* The worker after the import of the module, with the environment it was
\* given (lines 37-39): int() of a value that is no number raises, and the
\* process has ended with the interpreter's exit code for an uncaught
\* exception before TASK_INDEX and TASK_COUNT mean anything.  `stores` are
\* the contents the input prefix may have.
BatchStart(stores) ==
    /\ INPUT_FOLDER \in InputFolders
    /\ \E index_env \in TaskEnv, count_env \in TaskEnv :
          LET index == EnvGet(index_env, <<"0">>)
              count == EnvGet(count_env, <<"1">>)
          IN IF IsIntLiteral(index) /\ IsIntLiteral(count)
             THEN /\ bpc = "validate"
                  /\ TASK_INDEX = int(index)
                  /\ TASK_COUNT = int(count)
                  /\ exit_code = -1
             ELSE /\ bpc = "import_error"
                  /\ TASK_INDEX = 0
                  /\ TASK_COUNT = 1
                  /\ exit_code = 1
    /\ store \in stores
    /\ images = <<>>
    /\ chunk_start = 0
    /\ chunk_end = 0
    /\ assigned = <<>>
    /\ timestamp = 0
    /\ pos = 0
    /\ attempts = <<>>
    /\ processed = 0
    /\ errors = 0

BatchInit == BatchStart(SUBSET StoreObjects)

\* Lines 152-175: the configuration errors end the process with code 2.
Validate ==
    /\ bpc = "validate"
    /\ IF \/ ~Truthy(INPUT_FOLDER)
          \/ ~is_gs_path(INPUT_FOLDER)
          \/ TASK_COUNT <= 0
          \/ TASK_INDEX < 0
          \/ TASK_INDEX >= TASK_COUNT
       THEN bpc' = "exited" /\ exit_code' = 2
       ELSE bpc' = "list" /\ exit_code' = exit_code
    /\ UNCHANGED <<INPUT_FOLDER, TASK_COUNT, TASK_INDEX, store, images, chunk_start,
                   chunk_end, assigned, timestamp, pos, attempts, processed, errors,
                   blobs, clock>>

\* Lines 181-199: list, keep the images; without images there is nothing
\* to do.  A listing that raises (the store refuses, or the bucket has no
\* name) is caught nowhere: the interpreter ends the process with code 1.
ListImages ==
    /\ bpc = "list"
    /\ \/ /\ parse_gs_path(INPUT_FOLDER).bucket # <<>>
          /\ \E returned \in Orders(store) :
                images' = ImagesOf(list_gs_objects(returned))
          /\ IF Len(images') = 0
             THEN bpc' = "exited" /\ exit_code' = 0
             ELSE bpc' = "partition" /\ exit_code' = exit_code
       \/ /\ images' = images
          /\ bpc' = "crashed"
          /\ exit_code' = 1
    /\ UNCHANGED <<INPUT_FOLDER, TASK_COUNT, TASK_INDEX, store, chunk_start, chunk_end,
                   assigned, timestamp, pos, attempts, processed, errors, blobs, clock>>

\* Variant: a worker without indices ends as a failed one.
Partition_EmptyIsError ==
    /\ bpc = "partition"
    /\ LET total == Len(images) IN
       /\ chunk_start' = ChunkStart(total, TASK_COUNT, TASK_INDEX)
       /\ chunk_end' = ChunkEnd(total, TASK_COUNT, TASK_INDEX)
       /\ IF chunk_start' >= total
          THEN /\ bpc' = "exited"
               /\ exit_code' = 1
               /\ UNCHANGED <<assigned, timestamp>>
          ELSE /\ assigned' = Slice(images, chunk_start', chunk_end')
               /\ timestamp' = utc_timestamp_folder(clock)
               /\ bpc' = "loop"
               /\ exit_code' = exit_code
    /\ UNCHANGED <<INPUT_FOLDER, TASK_COUNT, TASK_INDEX, store, images, pos, attempts,
                   processed, errors, blobs, clock>>

\* Lines 201-221: this worker's chunk; a chunk that starts beyond the list
\* ends the run; otherwise the run's timestamp is taken.
Partition ==
    /\ bpc = "partition"
    /\ LET total == Len(images) IN
       /\ chunk_start' = ChunkStart(total, TASK_COUNT, TASK_INDEX)
       /\ chunk_end' = ChunkEnd(total, TASK_COUNT, TASK_INDEX)
       /\ IF chunk_start' >= total
          THEN /\ bpc' = "exited"
               /\ exit_code' = 0
               /\ UNCHANGED <<assigned, timestamp>>
          ELSE /\ assigned' = Slice(images, chunk_start', chunk_end')
               /\ timestamp' = utc_timestamp_folder(clock)
               /\ bpc' = "loop"
               /\ exit_code' = exit_code
    /\ UNCHANGED <<INPUT_FOLDER, TASK_COUNT, TASK_INDEX, store, images, pos, attempts,
                   processed, errors, blobs, clock>>

\* Lines 229-238 for one item: the stage fails when the bytes are no image
\* or when the retry as PNG fails too.
BatchThumbnail(kind, filename) == ThumbnailStage(kind, filename)

\* The outcome of lines 224-248 for one item: what the download gives, then
\* the thumbnail, then whether the upload succeeds.
ItemOutcomes(filename) ==
    {[stage |-> "download", fmt |-> "none"]}
    \cup {[stage |-> "thumbnail", fmt |-> "none"] : kind \in
             {k \in ImageKinds : BatchThumbnail(k, filename).outcome # "ok"}}
    \cup {[stage |-> st, fmt |-> BatchThumbnail(kind, filename).fmt] :
             st \in {"upload", "ok"},
             kind \in {k \in ImageKinds : BatchThumbnail(k, filename).outcome = "ok"}}

\* Variant: the first failing item ends the loop.
ProcessItem_AbortOnError ==
    /\ bpc = "loop"
    /\ pos < Len(assigned)
    /\ LET item == assigned[pos + 1] IN
       \E out \in ItemOutcomes(item.filename) :
          /\ attempts' = Append(attempts, [item |-> item, outcome |-> out.stage])
          /\ IF out.stage = "ok"
             THEN /\ blobs' = upload_bytes_to_gs(
                                 parse_gs_path(INPUT_FOLDER).bucket,
                                 <<timestamp, item.filename>>,
                                 [of |-> item.blob_name, fmt |-> out.fmt])
                  /\ processed' = processed + 1
                  /\ errors' = errors
                  /\ pos' = pos + 1
             ELSE /\ errors' = errors + 1
                  /\ pos' = Len(assigned)
                  /\ UNCHANGED <<blobs, processed>>
    /\ UNCHANGED <<bpc, INPUT_FOLDER, TASK_COUNT, TASK_INDEX, store, images, chunk_start,
                   chunk_end, assigned, timestamp, exit_code, clock>>

\* Lines 223-261, one turn of the loop: download, thumbnail, upload to
\* <timestamp>/<filename>; any exception is counted and the loop goes on.
ProcessItem ==
    /\ bpc = "loop"
    /\ pos < Len(assigned)
    /\ LET item == assigned[pos + 1] IN
       \E out \in ItemOutcomes(item.filename) :
          /\ attempts' = Append(attempts, [item |-> item, outcome |-> out.stage])
          /\ IF out.stage = "ok"
             THEN /\ blobs' = upload_bytes_to_gs(
                                 parse_gs_path(INPUT_FOLDER).bucket,
                                 <<timestamp, item.filename>>,
                                 [of |-> item.blob_name, fmt |-> out.fmt])
                  /\ processed' = processed + 1
                  /\ errors' = errors
             ELSE /\ errors' = errors + 1
                  /\ UNCHANGED <<blobs, processed>>
    /\ pos' = pos + 1
    /\ UNCHANGED <<bpc, INPUT_FOLDER, TASK_COUNT, TASK_INDEX, store, images, chunk_start,
                   chunk_end, assigned, timestamp, exit_code, clock>>

\* Lines 263-266: the summary; process() returns and the interpreter exits 0.
Finish ==
    /\ bpc = "loop"
    /\ pos = Len(assigned)
    /\ bpc' = "exited"
    /\ exit_code' = 0
    /\ UNCHANGED <<INPUT_FOLDER, TASK_COUNT, TASK_INDEX, store, images, chunk_start,
                   chunk_end, assigned, timestamp, pos, attempts, processed, errors,
                   blobs, clock>>

(***************************************************************************)
(* The two programs.                                                       *)
(***************************************************************************)
\* Time passes.
Tick ==
    /\ clock < MaxClock
    /\ clock' = clock + 1
    /\ last' = NoCall
    /\ UNCHANGED <<pc, locals, lock, ledger, counters, inbox, delivered, batchVars,
                   blobs>>

Init == inbox = Numbers(Deliveries) /\ EventInit /\ BatchOff /\ blobs = <<>> /\ clock = 0

Next ==
    \/ \E h \in Handlers : Receive(h) /\ UNCHANGED <<batchVars, inbox>>
    \/ \E h \in Handlers : AcquireForClaim(h) /\ UNCHANGED <<batchVars, inbox>>
    \/ \E h \in Handlers : ClaimOrInspect(h) /\ UNCHANGED <<batchVars, inbox>>
    \/ \E h \in Handlers : Download(h) /\ UNCHANGED <<batchVars, inbox>>
    \/ \E h \in Handlers : Upload(h) /\ UNCHANGED <<batchVars, inbox>>
    \/ \E h \in Handlers : Stamp(h) /\ UNCHANGED <<batchVars, inbox>>
    \/ \E h \in Handlers : AcquireForRecord(h) /\ UNCHANGED <<batchVars, inbox>>
    \/ \E h \in Handlers : Record(h) /\ UNCHANGED <<batchVars, inbox>>
    \/ Tick

\* The event service.
Spec == Init /\ [][Next]_vars

InitBatch == inbox = {} /\ EventInit /\ BatchInit /\ blobs = <<>> /\ clock = 0

NextBatch ==
    \/ Validate /\ UNCHANGED eventVars
    \/ ListImages /\ UNCHANGED eventVars
    \/ Partition /\ UNCHANGED eventVars
    \/ ProcessItem /\ UNCHANGED eventVars
    \/ Finish /\ UNCHANGED eventVars
    \/ Tick

\* One run of a batch worker.
SpecBatch == InitBatch /\ [][NextBatch]_vars

\* Image objects with the extensions the format is inferred from, in
\* lower, upper and mixed case, with other extensions and with none.
FormatNames ==
    { <<"p", "h", "o", "t", "o", ".", "J", "P", "G">>,
      <<"a", "r", "c", "h", "i", "v", "e", ".", "z", "i", "p">>,
      <<"a", ".", "j", "p", "g">>,
      <<"a", ".", "j", "p", "e", "g">>,
      <<"a", ".", "J", "p", "e", "G">>,
      <<"a", ".", "p", "n", "g">>,
      <<"a", ".", "g", "i", "f">>,
      <<"a", ".", "G", "I", "F">>,
      <<"a", ".", "b", "m", "p">>,
      <<"a", ".", "t", "i", "f">>,
      <<"a", ".", "t", "i", "f", "f">>,
      <<"a", ".", "T", "i", "f", "f">>,
      <<"a", ".", "w", "e", "b", "p">>,
      <<"a", ".", "W", "E", "B", "P">>,
      <<"a", ".", "j", "p", "g", ".", "g", "z">>,
      <<"a", ".", "j", "p">>,
      <<"j", "p", "g">>,
      <<".", "j", "p", "g">>,
      <<"a", ".">> }

FormatObjects ==
    {[name |-> n, content_type |-> <<"image", "/", "x">>] : n \in FormatNames}

InitFormats ==
    /\ inbox = {}
    /\ EventInit
    /\ BatchStart({{o} : o \in FormatObjects})
    /\ blobs = <<>>
    /\ clock = 0

\* One run of a batch worker over one image object.
SpecFormats == InitFormats /\ [][NextBatch]_vars

InitKeys ==
    /\ inbox \in {pair \in SUBSET Numbers(KeyDeliveries) : Cardinality(pair) = 2}
    /\ EventInit /\ BatchOff /\ blobs = <<>> /\ clock = 0

\* The event service with two notifications to deliver, in any order and any
\* number of times.
SpecKeys == InitKeys /\ [][Next]_vars

(***************************************************************************)
(* Properties of the event handler.                                        *)
(***************************************************************************)
Terminal == {"completed", "failed"}

\* The handler is between the insertion of its 'processing' record and the
\* overwrite that ends the call.
Working(h) ==
    pc[h] \in {"download", "upload", "stamp", "record", "record_cs"}

LastKey == IdempotencyKey(last.req)
LastStatus == IF "status" \in DOMAIN last.resp THEN last.resp.status ELSE "none"

\* The step in which handler h leaves the critical section of lines 216-256
\* having found a record with the given status.
InspectStep(h, status) ==
    /\ pc[h] = "claim_cs"
    /\ pc'[h] # "claim_cs"
    /\ Key(h) \in DOMAIN ledger
    /\ ledger[Key(h)].status = status

\* In this step handler h returns, without having made a blob-store call,
\* and neither the ledger nor the blob store changes.
ReturnsUntouched(h, response) ==
    /\ pc'[h] = "idle"
    /\ last'.req = req[h]
    /\ last'.resp = response
    /\ last'.ops = 0 /\ last'.wrote = 0 /\ ~last'.claimed
    /\ UNCHANGED <<ledger, blobs, downloads, uploads, claims>>

\* C1: per key at most one call inserts the 'processing' record and goes on
\* to download; every other call with that key makes no blob-store call.  So
\* a key is claimed, downloaded and uploaded at most once each, and two
\* handlers never work on the same key at the same time.
C1_AtMostOneClaimPerKey ==
    /\ \A k \in AllKeys :
          /\ claims[k] <= 1
          /\ downloads[k] <= claims[k]
          /\ uploads[k] <= downloads[k]
    /\ \A h \in Handlers :
          /\ Working(h) <=> claimed[h]
          /\ ~claimed[h] => ops[h] = 0 /\ wrote[h] = 0
    /\ ~last.claimed => last.ops = 0 /\ last.wrote = 0
    /\ \A h1, h2 \in Handlers :
          h1 # h2 /\ Working(h1) /\ Working(h2) => Key(h1) # Key(h2)

\* Two deliveries of one key (generation 1 as a number and as a string) were
\* in flight together: one is uploading, the other was turned away.
C1_Witness ==
    \E h \in Handlers :
        /\ claimed[h] /\ pc[h] = "upload"
        /\ last.req # req[h]
        /\ LastKey = Key(h)
        /\ last.resp.code = 409
        /\ downloads[Key(h)] = 1

\* C2: when a call that claimed its key has returned, the record of the key
\* is 'completed' or 'failed': a 'processing' record always belongs to a
\* call that has not returned yet.
C2_NeverLeftProcessing ==
    /\ last.claimed =>
          /\ LastKey \in DOMAIN ledger
          /\ ledger[LastKey].status \in Terminal
    /\ \A k \in DOMAIN ledger :
          ledger[k].status = "processing" =>
              \E h \in Handlers : Working(h) /\ Key(h) = k

\* A claiming call has returned after both thumbnail attempts failed.
C2_Witness ==
    /\ last.claimed
    /\ ledger[LastKey] = FailedRecord("thumbnail_error")
    /\ last.resp.code = 500

\* C3 (state part): a call answered 'already_processed' has made no
\* blob-store call and reports what the completed record holds.
C3_State ==
    LastStatus = "already_processed" =>
        /\ last.resp.code = 200
        /\ ~last.claimed /\ last.ops = 0 /\ last.wrote = 0
        /\ ledger[LastKey].status = "completed"
        /\ last.resp.uploaded_to = ledger[LastKey].dest_blob
        /\ last.resp.uploaded_at = ledger[LastKey].uploaded_at

\* C3 (step part): the call that finds its record 'completed' returns in
\* that very step with the cached answer and changes neither ledger nor
\* blob store.
C3_Step ==
    \A h \in Handlers :
        InspectStep(h, "completed") =>
            ReturnsUntouched(h, [code |-> 200, status |-> "already_processed",
                                 idempotency_key |-> Key(h),
                                 uploaded_to |-> ledger[Key(h)].dest_blob,
                                 uploaded_at |-> ledger[Key(h)].uploaded_at])

\* C3: a delivery whose key has a 'completed' record is answered 200
\* 'already_processed' with the cached destination and timestamp, without
\* any blob-store operation and without a change of the ledger.
C3_CompletedIsCached == []C3_State /\ [][C3_Step]_vars

\* The last of the deliveries was answered from the completed record.
C3_Witness ==
    /\ LastStatus = "already_processed"
    /\ delivered = MaxDeliveries

\* C4: a record is created 'processing', moves at most once, to 'completed'
\* or 'failed', is never removed, and a terminal record never changes.
C4_Step ==
    /\ \A k \in DOMAIN ledger :
          /\ k \in DOMAIN ledger'
          /\ ledger[k].status \in Terminal => ledger'[k] = ledger[k]
          /\ ledger[k].status = "processing" =>
                \/ ledger'[k] = ledger[k]
                \/ ledger'[k].status \in Terminal
    /\ \A k \in DOMAIN ledger' \ DOMAIN ledger : ledger'[k] = [status |-> "processing"]

C4_OneTransition == [][C4_Step]_vars

\* A handler is inside the idempotency check for a key whose record is
\* 'failed', while another key has a 'completed' record.
C4_Witness ==
    \E h \in Handlers :
        /\ pc[h] = "claim_cs"
        /\ Key(h) \in DOMAIN ledger
        /\ ledger[Key(h)].status = "failed"
        /\ \E k \in DOMAIN ledger : ledger[k].status = "completed"

\* The tag of the failure record that goes with each error response.
ErrorTagOf(message) ==
    CASE message = "failed to download object" -> "download_error"
      [] message = "source is not a valid image" -> "invalid_image"
      [] message = "failed to create thumbnail" -> "thumbnail_error"
      [] message = "failed to upload thumbnail" -> "upload_error"
      [] OTHER -> "none"

\* C5: a claiming call ends 'completed' exactly when its upload succeeded,
\* and then a blob exists at the destination stored in the record; it ends
\* 'failed' exactly when a stage failed, and then it has written no blob.
C5_AllOrNothing ==
    last.claimed =>
        LET rec == ledger[LastKey] IN
        /\ rec.status = "completed" <=> last.wrote = 1
        /\ rec.status = "completed" =>
              /\ \E b \in DOMAIN blobs : UploadedPath(b[1], b[2]) = rec.dest_blob
              /\ last.resp.code = 200 /\ LastStatus = "ok"
              /\ last.resp.uploaded_to = rec.dest_blob
        /\ rec.status = "failed" <=> last.wrote = 0
        /\ rec.status = "failed" <=> "error" \in DOMAIN last.resp
        /\ rec.status = "failed" =>
              /\ rec.error = ErrorTagOf(last.resp.error)
              /\ rec.error # "none"
              /\ last.resp.code \in {400, 500}

\* One claiming call has ended completed, after another had failed at the
\* upload, and the clock has moved on.
C5_Witness ==
    /\ last.claimed
    /\ ledger[LastKey].status = "completed"
    /\ \E k \in DOMAIN ledger : ledger[k] = FailedRecord("upload_error")
    /\ clock > 0

\* C6 (state part): a call answered with the cached failure got 500 and the
\* error of the record, and made no blob-store call.
C6_State ==
    LastStatus = "failed" =>
        /\ last.resp.code = 500
        /\ ~last.claimed /\ last.ops = 0 /\ last.wrote = 0
        /\ ledger[LastKey].status = "failed"
        /\ last.resp.error = ledger[LastKey].error

\* C6 (step part): finding the record 'failed' ends the call at once and
\* changes nothing; a failed record stays as it is; a record is inserted only
\* for a key that has none.
C6_Step ==
    /\ \A h \in Handlers :
          InspectStep(h, "failed") =>
              ReturnsUntouched(h, [code |-> 500, status |-> "failed",
                                   idempotency_key |-> Key(h),
                                   error |-> ledger[Key(h)].error])
    /\ \A k \in DOMAIN ledger :
          ledger[k].status = "failed" => k \in DOMAIN ledger' /\ ledger'[k] = ledger[k]
    /\ \A k \in AllKeys : claims'[k] # claims[k] => k \notin DOMAIN ledger

\* C6: a delivery whose key has a 'failed' record is answered 500 with the
\* cached error and is never retried; the key stays failed, and only a
\* delivery with another key (a new generation) is processed afresh.
C6_FailedIsFinal == []C6_State /\ [][C6_Step]_vars

\* A key was answered from its failure record while another generation of
\* the same object has been claimed.
C6_Witness ==
    /\ LastStatus = "failed"
    /\ \E h \in Handlers :
          /\ claimed[h]
          /\ Bucket(h) = PyStr(BucketName(last.req))
          /\ Object(h) = PyStr(ObjectName(last.req))
          /\ Generation(req[h]) # Generation(last.req)
          /\ Key(h) # LastKey

\* C7 (state part): a call answered 'processing' got 409 and made no
\* blob-store call.
C7_State ==
    LastStatus = "processing" =>
        /\ last.resp.code = 409
        /\ ~last.claimed /\ last.ops = 0 /\ last.wrote = 0

\* C7 (step part): finding the record 'processing' ends the call at once
\* with 409 and changes nothing; a 'processing' record changes only when
\* the handler that inserted it stores its terminal record.
C7_Step ==
    /\ \A h \in Handlers :
          InspectStep(h, "processing") =>
              ReturnsUntouched(h, [code |-> 409, status |-> "processing",
                                   idempotency_key |-> Key(h)])
    /\ \A k \in DOMAIN ledger :
          ledger[k].status = "processing" /\ ledger'[k] # ledger[k] =>
              /\ ledger'[k].status \in Terminal
              /\ \E h \in Handlers :
                    /\ claimed[h] /\ Key(h) = k
                    /\ pc[h] = "record_cs" /\ pc'[h] = "idle"

\* C7: while the claimant has not stored a terminal record, every delivery
\* of the key is answered 409 'processing' with no blob-store operation and
\* no change of the ledger; only the claimant's completion or failure ends
\* that.
C7_ProcessingIsBusy == []C7_State /\ [][C7_Step]_vars

\* A delivery was answered 409 while the claimant has its thumbnail and is
\* about to upload it.
C7_Witness ==
    /\ LastStatus = "processing"
    /\ ledger[LastKey].status = "processing"
    /\ \E h \in Handlers : claimed[h] /\ pc[h] = "upload" /\ Key(h) = LastKey

\* The envelope cannot be parsed, or one of the three fields is not resolved.
Unresolved(p) ==
    \/ ~p.parse
    \/ BucketName(p) = None
    \/ ObjectName(p) = None
    \/ Generation(p) = None

\* C8 (state part): a call with such a payload never gets past its
\* reception: it is answered 400 and has done nothing else.
C8_State ==
    /\ \A h \in Handlers : pc[h] # "idle" => ~Unresolved(req[h])
    /\ last # NoCall /\ Unresolved(last.req) =>
          /\ last.resp.code = 400
          /\ ~last.claimed /\ last.ops = 0 /\ last.wrote = 0

\* C8 (step part): the step that receives a notification and answers it at
\* once answers 400 and changes neither the ledger, nor its lock, nor the
\* blob store.
C8_Step ==
    delivered' # delivered /\ pc' = pc =>
        /\ last'.resp.code = 400
        /\ UNCHANGED <<ledger, blobs, downloads, uploads, claims, lock>>

\* C8: a notification that cannot be parsed or lacks bucket, object name or
\* generation is answered 400 and leaves ledger and blob store as they were.
C8_InvalidEventNoEffect == []C8_State /\ [][C8_Step]_vars

\* A payload without generation was answered 400 while the ledger held a
\* record.
C8_Witness ==
    /\ last.req.parse /\ Generation(last.req) = None
    /\ last.resp.code = 400
    /\ DOMAIN ledger # {}

(***************************************************************************)
(* Properties of the batch worker.                                         *)
(***************************************************************************)
\* The indexes of the image list that worker task_index takes.
ShardOf(total, task_count, task_index) ==
    {i \in 0..(total - 1) : /\ ChunkStart(total, task_count, task_index) <= i
                            /\ i < ChunkEnd(total, task_count, task_index)}

ShardsPartition(total, task_count) ==
    /\ chunk_size(total, task_count) * task_count >= total
    /\ (chunk_size(total, task_count) - 1) * task_count < total
    /\ \A i \in 0..(total - 1) :
          Cardinality({t \in 0..(task_count - 1) : i \in ShardOf(total, task_count, t)}) = 1

ShardsPartitionUpToMax ==
    \A total \in 0..MaxTotal, task_count \in 1..MaxTaskCount :
        ShardsPartition(total, task_count)

ShardsOfTenByThree ==
    /\ ChunkStart(10, 3, 0) = 0 /\ ChunkEnd(10, 3, 0) = 4
    /\ ChunkStart(10, 3, 1) = 4 /\ ChunkEnd(10, 3, 1) = 8
    /\ ChunkStart(10, 3, 2) = 8 /\ ChunkEnd(10, 3, 2) = 10

\* A worker that got past the validation and the listing.
Partitioned == bpc = "loop" \/ (bpc = "exited" /\ exit_code = 0 /\ images # <<>>)

\* C9: the shards [start, end) of the workers 0 .. taskCount-1, with
\* chunkSize = ceil(total / taskCount), start = chunkSize * taskIndex and
\* end = min(start + chunkSize, total), are pairwise disjoint and cover
\* 0 .. total-1, so every image is in exactly one worker's shard; for
\* total = 10 and taskCount = 3 they are [0,4), [4,8), [8,10).  The worker
\* takes exactly the images of its own shard.
C9_ShardsPartitionTheList ==
    /\ ShardsPartitionUpToMax
    /\ ShardsOfTenByThree
    /\ Partitioned =>
          LET total == Len(images)
              mine == ShardOf(total, TASK_COUNT, TASK_INDEX)
          IN /\ ShardsPartition(total, TASK_COUNT)
             /\ Len(assigned) = Cardinality(mine)
             /\ mine # {} =>
                   /\ chunk_start \in mine
                   /\ chunk_end - 1 \in mine
                   /\ chunk_end - chunk_start = Cardinality(mine)
                   /\ \A i \in 1..Len(assigned) : assigned[i] = images[chunk_start + i]

\* Two workers and three images: this worker is the last one and its shard
\* is the short one.
C9_Witness ==
    /\ bpc = "loop"
    /\ TASK_COUNT = 2
    /\ TASK_INDEX = 1
    /\ Len(images) = 3
    /\ chunk_start = 2
    /\ chunk_end = 3
    /\ assigned = <<images[3]>>

Failures == {i \in 1..Len(attempts) : attempts[i].outcome # "ok"}

Successes == {i \in 1..Len(attempts) : attempts[i].outcome = "ok"}

\* C10: a failing item never aborts the batch run: the items of the shard
\* are attempted once each, in list order; processed counts the items whose
\* upload succeeded, each with a thumbnail at its destination, errors counts
\* the items that failed, and at the end of the run processed + errors is
\* the size of the shard.
C10_EveryItemAttempted ==
    /\ Len(attempts) = pos
    /\ pos <= Len(assigned)
    /\ \A i \in 1..Len(attempts) : attempts[i].item = assigned[i]
    /\ processed = Cardinality(Successes)
    /\ errors = Cardinality(Failures)
    /\ \A i \in Successes :
          <<BucketB, <<timestamp, attempts[i].item.filename>>>> \in DOMAIN blobs
    /\ Cardinality(DOMAIN blobs) <= processed
    /\ bpc = "exited" /\ assigned # <<>> =>
          /\ exit_code = 0
          /\ pos = Len(assigned)
          /\ processed + errors = Len(assigned)

\* A finished run in which a download, a thumbnail and an upload failed, and
\* an item after a failed one was processed.
C10_Witness ==
    /\ bpc = "exited"
    /\ \A stage \in {"download", "thumbnail", "upload"} :
          \E i \in Failures : attempts[i].outcome = stage
    /\ \E i \in Failures, j \in Successes : i < j
    /\ processed + errors = Len(assigned)

\* The configuration passes the checks of the entry point, stated on the
\* values: a gs:// path, at least one worker, an index among the workers.
AcceptedConfig ==
    /\ INPUT_FOLDER.t = "str"
    /\ Len(INPUT_FOLDER.v) >= 5
    /\ SubSeq(INPUT_FOLDER.v, 1, 5) = <<"g", "s", ":", "/", "/">>
    /\ TASK_COUNT >= 1
    /\ TASK_INDEX >= 0
    /\ TASK_INDEX < TASK_COUNT

\* The listing has returned and gives this worker nothing: there are no
\* images, or the worker's start index is not below their number.
NothingAssigned ==
    /\ AcceptedConfig
    /\ bpc \in {"partition", "loop", "exited"}
    /\ \/ Len(images) = 0
       \/ ChunkStart(Len(images), TASK_COUNT, TASK_INDEX) >= Len(images)

C11_State ==
    NothingAssigned =>
        /\ bpc # "loop"
        /\ attempts = <<>>
        /\ DOMAIN blobs = {}
        /\ processed = 0 /\ errors = 0
        /\ bpc = "exited" => exit_code = 0

C11_Step ==
    NothingAssigned /\ bpc' # bpc => bpc' = "exited" /\ exit_code' = 0

\* C11: a batch worker whose start index is >= total, and one that finds no
\* images at all, attempts no item (each attempt starts with a download), so
\* downloads nothing and uploads nothing, and its next step ends the run
\* with exit code 0 and zero items processed.
C11_NothingAssignedIsNoOp == []C11_State /\ [][C11_Step]_vars

\* The last of several workers has ended without indices although there
\* are images.
C11_Witness ==
    /\ bpc = "exited"
    /\ exit_code = 0
    /\ Len(images) = 3
    /\ TASK_COUNT = 4
    /\ TASK_INDEX = 3
    /\ chunk_start = 3
    /\ attempts = <<>>

\* Five workers and four images, after the partition.
FourAmongFive ==
    /\ AcceptedConfig
    /\ TASK_COUNT = 5
    /\ Len(images) = 4
    /\ bpc \in {"loop", "exited"}

\* C12 as stated: with taskIndex = 2, total = 4 and taskCount = 5 the shard
\* is empty and the run attempts and uploads nothing.
C12_AsStated ==
    FourAmongFive /\ TASK_INDEX = 2 =>
        /\ assigned = <<>>
        /\ attempts = <<>>
        /\ DOMAIN blobs = {}

\* C12, amended: with total = 4 and taskCount = 5 the chunk size is 1, so the
\* shard of taskIndex = 2 is [2,3): that worker attempts exactly the image at
\* index 2 and ends with exit code 0.  The worker with the empty shard is
\* taskIndex = 4: its run is a successful no-op.
C12_ShardOfFourAmongFive ==
    FourAmongFive =>
        /\ TASK_INDEX = 2 =>
              /\ chunk_start = 2 /\ chunk_end = 3
              /\ assigned = <<images[3]>>
              /\ \A i \in 1..Len(attempts) : attempts[i].item = images[3]
              /\ Len(attempts) <= 1
              /\ bpc = "exited" => Len(attempts) = 1 /\ exit_code = 0
        /\ TASK_INDEX = 4 =>
              /\ bpc = "exited" /\ exit_code = 0
              /\ assigned = <<>>
              /\ attempts = <<>>
              /\ DOMAIN blobs = {}
              /\ processed = 0 /\ errors = 0

\* The worker with index 2 has ended after it made the thumbnail of its one
\* image.
C12_Witness ==
    /\ FourAmongFive
    /\ TASK_INDEX = 2
    /\ bpc = "exited"
    /\ processed = 1
    /\ DOMAIN blobs # {}

\* A store path of the form gs://bucket[/prefix].
WellFormedPath ==
    /\ INPUT_FOLDER.t = "str"
    /\ Len(INPUT_FOLDER.v) > 5
    /\ SubSeq(INPUT_FOLDER.v, 1, 5) = <<"g", "s", ":", "/", "/">>
    /\ INPUT_FOLDER.v[6] # "/"

\* The configuration errors: store path missing or malformed, worker count
\* not positive, worker index outside [0, worker count).
ConfigError ==
    \/ ~WellFormedPath
    \/ TASK_COUNT <= 0
    \/ TASK_INDEX < 0
    \/ TASK_INDEX >= TASK_COUNT

\* C13 as stated, for a worker whose environment gave numbers for index and
\* count: on every configuration error the entry point exits with code 2
\* before it lists or touches any object, and every other run ends with
\* exit code 0.
C13_AsStated ==
    bpc # "import_error" =>
        /\ ConfigError =>
              /\ bpc \in {"validate", "exited"}
              /\ bpc = "exited" => exit_code = 2
              /\ images = <<>> /\ attempts = <<>> /\ DOMAIN blobs = {}
        /\ ~ConfigError /\ bpc \in {"exited", "crashed"} => exit_code = 0

(***************************************************************************)
(* Properties of the idempotency key.                                      *)
(***************************************************************************)
\* Bucket, object name and canonical generation of a notification.
Triple(p) == <<PyStr(BucketName(p)), PyStr(ObjectName(p)), PyStr(Generation(p))>>

Resolved(p) == ~Unresolved(p)

\* C14 as stated: two notifications get the same idempotency key if and only
\* if bucket, object name and canonical generation are the same, so
\* notifications that differ in one of them have independent records: none
\* is answered 'processing' because of the other.
C14_AsStated ==
    /\ \A h \in Handlers :
          Working(h) /\ Resolved(last.req) =>
              (Key(h) = LastKey <=> Triple(req[h]) = Triple(last.req))
    /\ LastStatus = "processing" =>
          \E h \in Handlers : Working(h) /\ Triple(req[h]) = Triple(last.req)

(***************************************************************************)
(* Properties of the destination.                                          *)
(***************************************************************************)
\* What follows the last "/" of a name (the whole name when it has none).
AfterLastSlash(name) ==
    CHOOSE tail \in {SubSeq(name, i, Len(name)) : i \in 1..(Len(name) + 1)} :
        /\ \A i \in 1..Len(tail) : tail[i] # "/"
        /\ Len(tail) = Len(name) \/ name[Len(name) - Len(tail)] = "/"

\* The hour of the clock.
Hour(now) == CHOOSE hh \in 0..now : hh * TicksPerHour <= now /\ now < (hh + 1) * TicksPerHour

\* The call that returned has uploaded: its answer is 'ok'.
LastUploaded == LastStatus = "ok"

\* C15 as stated: a successful call uploads to
\* <bucket>/<timestamp>/<basename(objectName)> and reports and caches that
\* path.
C15_AsStated ==
    LastUploaded =>
        \E hh \in 0..Hour(clock) :
            LET bucket == PyStr(BucketName(last.req))
                name == <<hh, AfterLastSlash(PyStr(ObjectName(last.req)))>>
            IN /\ <<bucket, name>> \in DOMAIN blobs
               /\ last.resp.uploaded_to = <<"gs://", bucket>> \o name
               /\ ledger[LastKey].dest_blob = <<"gs://", bucket>> \o name

C15_State ==
    LastUploaded =>
        \E hh \in 0..Hour(clock) :
            LET bucket == PyStr(BucketName(last.req))
                name == <<hh, "resized", AfterLastSlash(PyStr(ObjectName(last.req)))>>
            IN /\ <<bucket, name>> \in DOMAIN blobs
               /\ last.resp.uploaded_to = <<"gs://", bucket>> \o name
               /\ ledger[LastKey].dest_blob = <<"gs://", bucket>> \o name

\* The step that uploads writes the blob under the hour the clock shows at
\* that step.
C15_Step ==
    \A h \in Handlers :
        pc[h] = "upload" /\ pc'[h] = "stamp" =>
            LET at == <<Bucket(h), <<Hour(clock), "resized", AfterLastSlash(Object(h))>>>>
            IN /\ at \in DOMAIN blobs'
               /\ \A b \in DOMAIN blobs' : b # at => b \in DOMAIN blobs /\ blobs'[b] = blobs[b]
               /\ pending'[h].rec.dest_blob = <<"gs://", at[1]>> \o at[2]

\* C15, amended: in event mode a successful handle_event call uploads the
\* thumbnail to <bucket>/<YYYYMMDDTHHZ>/resized/<basename(objectName)>, with
\* the hour-granularity timestamp computed for that call, and reports and
\* caches exactly that path as the destination.
C15_EventDestination == []C15_State /\ [][C15_Step]_vars

\* A call has answered 'ok' for a/x.jpg uploaded in the second hour.
C15_Witness ==
    /\ LastUploaded
    /\ last.resp.uploaded_to = <<"gs://", <<"b">>, 1, "resized", <<"x", ".", "j", "p", "g">>>>
    /\ <<<<"b">>, <<1, "resized", <<"x", ".", "j", "p", "g">>>>>> \in DOMAIN blobs

(***************************************************************************)
(* Properties of the field extraction.                                     *)
(***************************************************************************)
\* The first value that is not None among the names tried in order, None
\* when there is none.
FirstNonNone(p, keys) ==
    LET hits == {i \in 1..Len(keys) : keys[i] \in DOMAIN p.data /\ p.data[keys[i]] # None}
    IN IF hits = {} THEN None
       ELSE p.data[keys[CHOOSE i \in hits : \A j \in hits : i <= j]]

\* C16 as stated: for a mapping as for an object, the extraction returns the
\* first value that is not None among the names tried in order, so a
\* notification whose first-tried object name is null resolves to the value
\* under the other name and is not answered as incomplete.
C16_AsStated ==
    last # NoCall /\ last.req.parse =>
        /\ BucketName(last.req) = FirstNonNone(last.req, <<"bucket">>)
        /\ ObjectName(last.req) = FirstNonNone(last.req, <<"file_name", "name">>)
        /\ Generation(last.req) = FirstNonNone(last.req, <<"generation">>)
        /\ /\ Truthy(FirstNonNone(last.req, <<"bucket">>))
           /\ Truthy(FirstNonNone(last.req, <<"file_name", "name">>))
           /\ FirstNonNone(last.req, <<"generation">>) # None
           => last.resp.code # 400

(***************************************************************************)
(* Properties of the output format.                                        *)
(***************************************************************************)
\* The format the claim gives for each of the names.
ExpectedFormat ==
    (<<"p", "h", "o", "t", "o", ".", "J", "P", "G">> :> "JPEG")
    @@ (<<"a", "r", "c", "h", "i", "v", "e", ".", "z", "i", "p">> :> "PNG")
    @@ (<<"a", ".", "j", "p", "g">> :> "JPEG")
    @@ (<<"a", ".", "j", "p", "e", "g">> :> "JPEG")
    @@ (<<"a", ".", "J", "p", "e", "G">> :> "JPEG")
    @@ (<<"a", ".", "p", "n", "g">> :> "PNG")
    @@ (<<"a", ".", "g", "i", "f">> :> "GIF")
    @@ (<<"a", ".", "G", "I", "F">> :> "GIF")
    @@ (<<"a", ".", "b", "m", "p">> :> "BMP")
    @@ (<<"a", ".", "t", "i", "f">> :> "TIFF")
    @@ (<<"a", ".", "t", "i", "f", "f">> :> "TIFF")
    @@ (<<"a", ".", "T", "i", "f", "f">> :> "TIFF")
    @@ (<<"a", ".", "w", "e", "b", "p">> :> "WEBP")
    @@ (<<"a", ".", "W", "E", "B", "P">> :> "WEBP")
    @@ (<<"a", ".", "j", "p", "g", ".", "g", "z">> :> "PNG")
    @@ (<<"a", ".", "j", "p">> :> "PNG")
    @@ (<<"j", "p", "g">> :> "PNG")
    @@ (<<".", "j", "p", "g">> :> "PNG")
    @@ (<<"a", ".">> :> "PNG")

\* C17: infer_format_from_ext maps a file name to an output format by its
\* extension, whatever the case of its letters: .jpg/.jpeg to JPEG, .png to
\* PNG, .gif to GIF, .bmp to BMP, .tif/.tiff to TIFF, .webp to WEBP, every
\* other or missing extension to PNG.  The thumbnail of an item is written
\* in that format, or in PNG after the fallback.
C17_FormatByExtension ==
    /\ \A i \in 1..Len(assigned) :
          infer_format_from_ext(assigned[i].filename) = ExpectedFormat[assigned[i].filename]
    /\ \A i \in Successes :
          LET filename == attempts[i].item.filename
              at == <<parse_gs_path(INPUT_FOLDER).bucket, <<timestamp, filename>>>>
          IN blobs[at].fmt \in {ExpectedFormat[filename], "PNG"}

\* The thumbnail of photo.JPG was written as JPEG.
C17_Witness ==
    /\ bpc = "exited"
    /\ Successes = {1}
    /\ attempts[1].item.filename = <<"p", "h", "o", "t", "o", ".", "J", "P", "G">>
    /\ \E b \in DOMAIN blobs : blobs[b].fmt = "JPEG"

(***************************************************************************)
(* Properties of the lock.                                                 *)
(***************************************************************************)
InCriticalSection(h) == pc[h] \in {"claim_cs", "record_cs"}

\* Downloading, making the thumbnail, uploading, and on the way to the
\* terminal record.
InBlobPhase(h) == pc[h] \in {"download", "upload", "stamp", "record"}

C18_State ==
    /\ \A h \in Handlers :
          /\ lock = h <=> InCriticalSection(h)
          /\ InBlobPhase(h) => lock # h
          /\ InCriticalSection(h) => ENABLED (ClaimOrInspect(h) \/ Record(h))
          /\ /\ pc[h] = "claim"
             /\ \A g \in Handlers \ {h} : pc[g] = "idle" \/ InBlobPhase(g)
             => lock = 0 /\ ENABLED AcquireForClaim(h)
    /\ lock \in Handlers \cup {0}

C18_Step ==
    /\ \A h \in Handlers :
          /\ lock = h /\ pc'[h] # pc[h] =>
                /\ lock' = 0
                /\ UNCHANGED <<blobs, downloads, uploads>>
                /\ \A k \in DOMAIN ledger' :
                      k \in DOMAIN ledger /\ ledger'[k] # ledger[k] => k = Key(h)
                /\ \A k \in DOMAIN ledger' \ DOMAIN ledger : k = Key(h)
          /\ pc[h] \in {"download", "upload", "stamp"} /\ pc'[h] # pc[h] =>
                /\ lock # h
                /\ UNCHANGED <<lock, ledger>>
    /\ ledger' # ledger => lock \in Handlers /\ lock' = 0
    /\ <<blobs, downloads, uploads>>' # <<blobs, downloads, uploads>> => UNCHANGED lock

\* C18: the idempotency lock is held only for one ledger read-or-insert or
\* one ledger overwrite, and the handler that holds it can always leave; it
\* is never held by a handler that downloads, makes a thumbnail or uploads.
\* So a handler that waits to claim while the others are idle or busy with
\* blobs finds the lock free, and handlers with different keys are in their
\* blob phases at the same time.
C18_LockOnlyAroundLedger == []C18_State /\ [][C18_Step]_vars

\* One handler is about to upload for one key while another, which claimed
\* a different key after it, is about to download.
C18_Witness ==
    \E h, g \in Handlers :
        /\ pc[h] = "upload" /\ pc[g] = "download"
        /\ claimed[h] /\ claimed[g]
        /\ Key(h) # Key(g)
        /\ ledger[Key(h)].status = "processing"
        /\ ledger[Key(g)].status = "processing"
        /\ lock = 0

(***************************************************************************)
(* Properties of the ledger's records.                                     *)
(***************************************************************************)
Has(rec, field) == field \in DOMAIN rec

WellFormed(rec) ==
    /\ rec.status \in {"processing", "completed", "failed"}
    /\ Has(rec, "dest_blob") <=> rec.status = "completed"
    /\ Has(rec, "uploaded_at") <=> rec.status = "completed"
    /\ Has(rec, "error") <=> rec.status = "failed"
    /\ DOMAIN rec \subseteq {"status", "dest_blob", "uploaded_at", "error"}

\* C19: every record of the ledger has one of the three statuses; it has a
\* destination and a completion time exactly when it is completed, an error
\* description exactly when it is failed, and neither when it is processing.
C19_RecordsWellFormed ==
    \A k \in DOMAIN ledger :
        /\ Has(ledger[k], "status")
        /\ WellFormed(ledger[k])

\* The ledger holds a completed and a failed record at once, after a
\* processing record has been replaced by each.
C19_Witness ==
    \E k1, k2 \in DOMAIN ledger :
        /\ ledger[k1].status = "completed"
        /\ ledger[k2].status = "failed"
        /\ claims[k1] > 0 /\ claims[k2] > 0

(***************************************************************************)
(* Properties of the thumbnail stage of handle_event.                      *)
(***************************************************************************)
IsCreate(c, fmt) == c.call = "create_thumbnail_bytes" /\ c.fmt = fmt
IsOpen(c) == c.call = "Image.open"

\* The calls are made in the order of lines 273-293: the attempt in some
\* format; after its failure the check of the source; after a successful
\* check the one retry as PNG; nothing after that.
InOrder(calls) ==
    /\ Len(calls) <= 3
    /\ Len(calls) >= 1 => calls[1].call = "create_thumbnail_bytes"
    /\ Len(calls) >= 2 => ~calls[1].ok /\ IsOpen(calls[2])
    /\ Len(calls) >= 3 => calls[2].ok /\ IsCreate(calls[3], "PNG")

NoUpload(call) ==
    /\ call.ops = 1 /\ call.wrote = 0
    /\ uploads[IdempotencyKey(call.req)] = 0

\* C20: when the attempt in the inferred format fails, an undecodable source
\* makes the call record invalid_image and answer 400 with no retry and no
\* upload; a decodable source is retried exactly once as PNG, and a second
\* failure makes the call record thumbnail_error and answer 500 with no
\* further retry and no upload.  The retry never precedes the check.
C20_ThumbnailFallback ==
    /\ \A h \in Handlers : InOrder(tried[h])
    /\ InOrder(last.tried)
    /\ last.tried # <<>> =>
          IsCreate(last.tried[1], infer_format_from_ext(PyStr(ObjectName(last.req))))
    /\ last.claimed /\ Len(last.tried) >= 1 /\ ~last.tried[1].ok =>
          /\ Len(last.tried) >= 2
          /\ IF ~last.tried[2].ok
             THEN /\ Len(last.tried) = 2
                  /\ ledger[LastKey] = FailedRecord("invalid_image")
                  /\ last.resp.code = 400
                  /\ NoUpload(last)
             ELSE /\ Len(last.tried) = 3
                  /\ IF ~last.tried[3].ok
                     THEN /\ ledger[LastKey] = FailedRecord("thumbnail_error")
                          /\ last.resp.code = 500
                          /\ NoUpload(last)
                     ELSE /\ last.ops = 2
                          /\ uploads[LastKey] = 1
                          /\ ledger[LastKey].status = "completed" <=> last.wrote = 1

\* A call has just answered 500 after the failed retry as PNG, and the
\* ledger also holds the invalid_image record of an earlier call.
C20_Witness ==
    /\ last.claimed
    /\ Len(last.tried) = 3 /\ ~last.tried[3].ok
    /\ last.resp.code = 500
    /\ \E k \in DOMAIN ledger :
          k # LastKey /\ ledger[k] = FailedRecord("invalid_image")

(***************************************************************************)
(* Properties of the listing.                                              *)
(***************************************************************************)
\* The listing has returned normally.
Listed == bpc \in {"partition", "loop"} \/ (bpc = "exited" /\ exit_code = 0)

EndsInSlash(name) == name # <<>> /\ name[Len(name)] = "/"

\* The names of the objects under the prefix that are no directory
\* placeholders and look like images.
ImageNames(objects) ==
    {b.name : b \in {o \in objects :
        /\ ~EndsInSlash(o.name)
        /\ looks_like_image(Basename(o.name), o.content_type)}}

\* C21: the image sequence is a function of the set of listed objects only,
\* whatever order the store returned them in: it holds the names that are no
\* directory placeholders and look like images, each once, and index i holds
\* the name with exactly i-1 smaller names among them, so every worker given
\* the same objects has the same image at the same index.
C21_SameSequenceInEveryWorker ==
    Listed =>
        /\ {images[i].blob_name : i \in DOMAIN images} = ImageNames(store)
        /\ Len(images) = Cardinality(ImageNames(store))
        /\ \A i \in DOMAIN images :
              /\ Cardinality({n \in ImageNames(store) :
                                 StrLess(n, images[i].blob_name)}) = i - 1
              /\ images[i].filename = Basename(images[i].blob_name)

\* A worker has listed four images among a directory placeholder and a text
\* file; upper case sorts before lower case and the name in the directory
\* between the others.
C21_Witness ==
    /\ bpc = "loop"
    /\ store = StoreObjects
    /\ Len(images) = 4
    /\ images[1].blob_name = <<"B", ".", "P", "N", "G">>
    /\ images[2].blob_name = <<"a", ".", "j", "p", "g">>
    /\ images[3].blob_name = <<"d", "/", "a", ".", "j", "p", "g">>
    /\ images[4].blob_name = <<"z">>

(***************************************************************************)
(* Properties of the destinations.                                         *)
(***************************************************************************)
\* The blob at the destination a record names, as the store has it now.
BlobAt(dest_blob) ==
    {blobs[b] : b \in {d \in DOMAIN blobs : UploadedPath(d[1], d[2]) = dest_blob}}

\* C22 as stated: whenever the record of a key is completed, the blob at the
\* destination stored in the record is the thumbnail made for that key; the
\* handling of another key never overwrites it.
C22_AsStated ==
    \A k \in DOMAIN ledger :
        ledger[k].status = "completed" =>
            /\ BlobAt(ledger[k].dest_blob) # {}
            /\ \A data \in BlobAt(ledger[k].dest_blob) : data.of = k

=============================================================================
